---- MODULE Spec2Model ----
(***************************************************************************)
(* SPH engine of flow_visualizer (src/src/core/sph-simulator.ts).          *)
(*                                                                         *)
(* Numbers.  The engine state lives on an integer grid: lengths are in     *)
(* units of half a kernel radius (kernelRadius = 0.1 is 2 units),          *)
(* densities in units of 315 / (64 pi h^9) grid^6, so that the Poly6       *)
(* coefficient is 1.  Sums, differences and products are exact on the grid *)
(* as they are in IEEE arithmetic for such values; a quotient is rounded   *)
(* to the grid toward zero (Quot), where the code rounds to its own grid.  *)
(* vec3.distance(a, b) < h is decided on squares: sqrt is monotone.        *)
(* The lattice loop of initializeParticles is modelled a second time on    *)
(* IEEE-754 binary64 values (section "binary64") for decimal spacings.     *)
(***************************************************************************)
EXTENDS Integers, Sequences, FiniteSets, TLC

VARIABLES
    particles,         \* SPHSimulator.particles: sequence of SPHParticle
    simulationParams,  \* SPHSimulator.simulationParams
    boundingGeometry,  \* SPHSimulator.boundingGeometry: box mesh (size, position)
    pc,                \* where the engine's single thread is
    deltaTime,         \* argument of the step call in progress
    phases,            \* phases run by the step call in progress / last finished
    held,              \* the array last returned by an accessor: its elements (refs)
                       \* and what a copy made at the call would hold (copy)
    detached,          \* vec3 objects the caller holds that left the engine
    lastCall,          \* the last API call and its arguments
    outcome,           \* how the last API call ended
    pre,               \* particle data when the last API call began
    calls,             \* number of API calls made
    seed64,            \* a run of initializeParticles' loops on binary64 values
    harness            \* the caller's program when the engine is driven by one

engineVars == <<particles, simulationParams, boundingGeometry, pc, deltaTime, phases,
                held, detached, lastCall, outcome, pre, calls>>

vars == <<engineVars, seed64, harness>>

----------------------------------------------------------------------------
(* Bounds of the model *)

MaxCalls == 3
MaxParticles == 4

\* the end-to-end run: steps made and particles seeded
ScenarioSteps == 10
ScenarioParticles == 125

\* the kernels taken alone: largest distance and largest radius tried
KernelMaxR == 12
KernelMaxH == 8

\* the page: events (clicks, input changes, imports, animation frames) followed
DriverMaxEvents == 6

\* parseVTKFile: lines of the longest file read
ParserMaxLines == 5

----------------------------------------------------------------------------
(* Program constants *)

kernelRadius == 2
PressureScale == 50

----------------------------------------------------------------------------
(* Arithmetic helpers *)

Abs(a) == IF a < 0 THEN -a ELSE a

Max(a, b) == IF a > b THEN a ELSE b

Min(a, b) == IF a < b THEN a ELSE b

\* a / b rounded toward zero
Quot(a, b) == IF (a >= 0) = (b > 0) THEN Abs(a) \div Abs(b) ELSE -(Abs(a) \div Abs(b))

Axes == 1..3

Zero3 == <<0, 0, 0>>

\* vec3.add / vec3.sub / vec3.scale / vec3.scaleAndAdd
Add3(a, b) == [k \in Axes |-> a[k] + b[k]]

Sub3(a, b) == [k \in Axes |-> a[k] - b[k]]

Scale3(a, s) == [k \in Axes |-> a[k] * s]

ScaleAndAdd3(a, b, s) == [k \in Axes |-> a[k] + b[k] * s]

\* square of vec3.distance(a, b)
DistSq(a, b) == (a[1]-b[1])*(a[1]-b[1]) + (a[2]-b[2])*(a[2]-b[2]) + (a[3]-b[3])*(a[3]-b[3])

\* the distance compared with twice the radius, the bound included (a faulty
\* variant)
WithinDiameter(a, b) == DistSq(a, b) <= 4 * kernelRadius * kernelRadius

\* the test leaving out distance 0 (a faulty variant)
WithinRadiusApart(a, b) ==
    0 < DistSq(a, b) /\ DistSq(a, b) < kernelRadius * kernelRadius

\* vec3.distance(a, b) < kernelRadius
WithinRadius(a, b) == DistSq(a, b) < kernelRadius * kernelRadius

----------------------------------------------------------------------------
(* Inputs *)

Box3(lo, hi) == [min |-> lo, max |-> hi]

\* params.bounds given to the constructor
BoundsChoices ==
    { Box3(<<0, 0, 0>>, <<4, 2, 2>>),
      Box3(<<0, 0, 0>>, <<2, 2, 2>>),
      Box3(<<2, 0, 0>>, <<0, 2, 2>>) }     \* inverted on x

\* params.viscosity, params.density, params.flowRate, params.timeStep
FluidChoices ==
    { [viscosity |-> 0, density |-> 40, flowRate |-> 1, timeStep |-> 1],
      [viscosity |-> 1, density |-> 100, flowRate |-> 1, timeStep |-> 1],
      [viscosity |-> 1, density |-> 40, flowRate |-> 2, timeStep |-> 2] }

\* SimulationParameters values
ParamChoices ==
    { [bounds |-> b, viscosity |-> f.viscosity, density |-> f.density,
       flowRate |-> f.flowRate, timeStep |-> f.timeStep] :
        b \in BoundsChoices, f \in FluidChoices }

\* step's deltaTime
DeltaTimeChoices == {-1, 0, 1, 2}

\* initializeParticles' startVolume and particleSpacing
RegionChoices ==
    { Box3(<<0, 0, 0>>, <<2, 1, 1>>),      \* two points at spacing 1, inside
      Box3(<<1, 1, 1>>, <<2, 3, 2>>),      \* reaches across the far y face
      Box3(<<4, 0, 0>>, <<6, 2, 2>>),      \* at or beyond the far x face
      Box3(<<2, 0, 0>>, <<0, 2, 2>>),      \* inverted on x
      Box3(<<1, 1, 1>>, <<2, 1, 2>>) }     \* empty on y

SpacingChoices == {-1, 0, 1, 2}

\* values a caller stores into a vec3 it was handed
WriteChoices == {-3, 7}

----------------------------------------------------------------------------
(* The bounding volume *)

\* constructor: BoxGeometry(max - min) placed at bounds.getCenter();
\* Box3.getCenter gives the origin for an empty (inverted) box
IsEmptyBox(b) == \E k \in Axes : b.max[k] < b.min[k]

GetCenter(b) ==
    IF IsEmptyBox(b) THEN Zero3 ELSE [k \in Axes |-> Quot(b.min[k] + b.max[k], 2)]

MakeBoundingGeometry(bounds) ==
    [size |-> Sub3(bounds.max, bounds.min), position |-> GetCenter(bounds)]

\* new THREE.Box3().setFromObject(this.boundingGeometry): the box geometry's
\* vertices lie at +-size/2 about the mesh position
SetFromObject(g) ==
    Box3([k \in Axes |-> g.position[k] - Quot(Abs(g.size[k]), 2)],
         [k \in Axes |-> g.position[k] + Quot(Abs(g.size[k]), 2)])

----------------------------------------------------------------------------
(* Particles *)

\* the fields of SPHParticle without the object identity
Data(p) == [position |-> p.position, velocity |-> p.velocity,
            density |-> p.density, pressure |-> p.pressure]

DataOf(ps) == [i \in 1..Len(ps) |-> Data(ps[i])]

Oids(ps) == {ps[i].oid : i \in 1..Len(ps)}

SetMax(S) == IF S = {} THEN 0 ELSE CHOOSE m \in S : \A x \in S : x <= m

HeldOids == {held.refs[i] : i \in 1..Len(held.refs)}

----------------------------------------------------------------------------
(* initializeParticles *)

\* for (z = min.z; z < max.z; z += spacing) push (x, y, z): what a loop that
\* ends pushes
RECURSIVE LoopZ(_, _, _, _, _)
LoopZ(x, y, z, startVolume, particleSpacing) ==
    IF z < startVolume.max[3]
    THEN << <<x, y, z>> >> \o LoopZ(x, y, z + particleSpacing, startVolume, particleSpacing)
    ELSE << >>

RECURSIVE LoopY(_, _, _, _)
LoopY(x, y, startVolume, particleSpacing) ==
    IF y < startVolume.max[2]
    THEN LoopZ(x, y, startVolume.min[3], startVolume, particleSpacing)
         \o LoopY(x, y + particleSpacing, startVolume, particleSpacing)
    ELSE << >>

RECURSIVE LoopX(_, _, _)
LoopX(x, startVolume, particleSpacing) ==
    IF x < startVolume.max[1]
    THEN LoopY(x, startVolume.min[2], startVolume, particleSpacing)
         \o LoopX(x + particleSpacing, startVolume, particleSpacing)
    ELSE << >>

\* the loops never end: the x loop is entered and x never reaches max.x
\* (inside it the y and z loops, when entered, do not end either)
LoopsForever(startVolume, particleSpacing) ==
    /\ particleSpacing <= 0
    /\ startVolume.min[1] < startVolume.max[1]

\* positions pushed, x outer, y middle, z inner
LatticePositions(startVolume, particleSpacing) ==
    LoopX(startVolume.min[1], startVolume, particleSpacing)

\* the push with each position moved along x by a count of the objects made
\* so far in the process (a faulty variant)
NewParticlesCounted(startVolume, particleSpacing, firstOid) ==
    LET pts == LatticePositions(startVolume, particleSpacing)
    IN  [n \in 1..Len(pts) |->
            [oid |-> firstOid + n - 1,
             position |-> Add3(pts[n], <<(firstOid - 1) % 3, 0, 0>>),
             velocity |-> Zero3,
             density |-> simulationParams.restDensity,
             pressure |-> 0]]

\* the particles pushed by one run of the three loops, given object
\* identities from firstOid on
NewParticles(startVolume, particleSpacing, firstOid) ==
    LET pts == LatticePositions(startVolume, particleSpacing)
    IN  [n \in 1..Len(pts) |->
            [oid |-> firstOid + n - 1,
             position |-> pts[n],
             velocity |-> Zero3,
             density |-> simulationParams.restDensity,
             pressure |-> 0]]

----------------------------------------------------------------------------
(* The four phases of step *)

\* poly6Kernel without Math.max (a faulty variant)
poly6KernelUnclamped(distSq) ==
    LET d == kernelRadius * kernelRadius - distSq
    IN  d * d * d

\* poly6Kernel, on the squared distance, in units of its coefficient
poly6Kernel(distSq) ==
    LET d == kernelRadius * kernelRadius - distSq
    IN  Max(0, d * d * d)

\* the inner forEach of calculateDensity for particle i over the particles
\* from..to; sums are exact on the grid, so the range is taken by halves,
\* which keeps the nesting shallow
RECURSIVE DensitySum(_, _, _, _)
DensitySum(ps, i, from, to) ==
    IF from > to THEN 0
    ELSE IF from = to
    THEN (IF WithinRadius(ps[i].position, ps[from].position)
          THEN poly6Kernel(DistSq(ps[i].position, ps[from].position))
          ELSE 0)
    ELSE DensitySum(ps, i, from, (from + to) \div 2)
         + DensitySum(ps, i, (from + to) \div 2 + 1, to)

\* calculateDensity leaving the particle itself out of its own sum (a faulty
\* variant)
calculateDensityOthers(ps) ==
    [i \in 1..Len(ps) |->
        [ps[i] EXCEPT !.density = DensitySum(ps, i, 1, Len(ps)) - poly6Kernel(0)]]

calculateDensity(ps) ==
    [i \in 1..Len(ps) |-> [ps[i] EXCEPT !.density = DensitySum(ps, i, 1, Len(ps))]]

\* calculatePressure never going below 0 (a faulty variant)
calculatePressureClamped(ps) ==
    [i \in 1..Len(ps) |->
        [ps[i] EXCEPT !.pressure =
            Max(0, simulationParams.pressureCoefficient
                     * (ps[i].density - simulationParams.restDensity))]]

\* calculatePressure keeping a pressure already written (a faulty variant)
calculatePressureOnce(ps) ==
    [i \in 1..Len(ps) |->
        IF ps[i].pressure # 0 THEN ps[i]
        ELSE [ps[i] EXCEPT !.pressure =
                simulationParams.pressureCoefficient
                  * (ps[i].density - simulationParams.restDensity)]]

calculatePressure(ps) ==
    [i \in 1..Len(ps) |->
        [ps[i] EXCEPT !.pressure =
            simulationParams.pressureCoefficient
              * (ps[i].density - simulationParams.restDensity)]]

\* calculatePressureForce dividing by the density of particle1 (a faulty
\* variant)
calculatePressureForceOwnDensity(particle1, particle2) ==
    LET pressureTerm ==
            Quot(particle1.pressure + particle2.pressure, 2 * particle1.density)
    IN  Scale3(Sub3(particle2.position, particle1.position), pressureTerm)

calculatePressureForce(particle1, particle2) ==
    LET pressureTerm ==
            Quot(particle1.pressure + particle2.pressure, 2 * particle2.density)
    IN  Scale3(Sub3(particle2.position, particle1.position), pressureTerm)

calculateViscosityForce(particle1, particle2) ==
    Sub3(particle2.velocity, particle1.velocity)

\* whether the inner forEach of applyForces adds other_particle's terms
Interacts(ps, i, j) ==
    /\ ps[i].oid # ps[j].oid
    /\ WithinRadius(ps[i].position, ps[j].position)

\* pressureForce of particle i accumulated over the particles from..to
RECURSIVE PressureSum(_, _, _, _)
PressureSum(ps, i, from, to) ==
    IF from > to THEN Zero3
    ELSE IF from = to
    THEN (IF Interacts(ps, i, from) THEN calculatePressureForce(ps[i], ps[from]) ELSE Zero3)
    ELSE Add3(PressureSum(ps, i, from, (from + to) \div 2),
              PressureSum(ps, i, (from + to) \div 2 + 1, to))

\* viscosityForce of particle i accumulated over the particles from..to
RECURSIVE ViscositySum(_, _, _, _)
ViscositySum(ps, i, from, to) ==
    IF from > to THEN Zero3
    ELSE IF from = to
    THEN (IF Interacts(ps, i, from) THEN calculateViscosityForce(ps[i], ps[from]) ELSE Zero3)
    ELSE Add3(ViscositySum(ps, i, from, (from + to) \div 2),
              ViscositySum(ps, i, (from + to) \div 2 + 1, to))

\* the body of the outer forEach with a downward pull added to the two
\* forces (a faulty variant)
ApplyForcesToWithGravity(ps, i, dt) ==
    LET pressureForce == Scale3(PressureSum(ps, i, 1, Len(ps)), dt)
        viscosityForce ==
            Scale3(ViscositySum(ps, i, 1, Len(ps)),
                   simulationParams.viscosityCoefficient * dt)
    IN  [ps EXCEPT ![i].velocity =
            Add3(Add3(Add3(ps[i].velocity, pressureForce), viscosityForce),
                 <<0, -dt, 0>>)]

\* the body of the outer forEach of applyForces for particle i: its velocity
\* is written into the array the later particles read
ApplyForcesTo(ps, i, dt) ==
    LET pressureForce == Scale3(PressureSum(ps, i, 1, Len(ps)), dt)
        viscosityForce ==
            Scale3(ViscositySum(ps, i, 1, Len(ps)),
                   simulationParams.viscosityCoefficient * dt)
    IN  [ps EXCEPT ![i].velocity = Add3(Add3(ps[i].velocity, pressureForce), viscosityForce)]

\* the outer forEach of applyForces over the particles from..to of the
\* array, in index order: the second half runs on the array the first half
\* has written
RECURSIVE ApplyForcesFrom(_, _, _, _)
ApplyForcesFrom(ps, from, to, dt) ==
    IF from > to \/ from > Len(ps) THEN ps
    ELSE IF from = to THEN ApplyForcesTo(ps, from, dt)
    ELSE ApplyForcesFrom(ApplyForcesFrom(ps, from, (from + to) \div 2, dt),
                         (from + to) \div 2 + 1, to, dt)

applyForces(ps, dt) == ApplyForcesFrom(ps, 1, Len(ps), dt)

\* velocity[index] *= -0.5
Damp(v) == Quot(-v, 2)

\* handleBoundaryCollision with the max test left out (a faulty variant)
BoundAxisMinOnly(pos, vel, lo, hi) ==
    IF pos < lo THEN [p |-> lo, v |-> Damp(vel)] ELSE [p |-> pos, v |-> vel]

\* handleBoundaryCollision on one axis setting the position only (a faulty
\* variant)
BoundAxisClampOnly(pos, vel, lo, hi) ==
    [p |-> Max(lo, Min(pos, hi)), v |-> vel]

\* handleBoundaryCollision on one axis: the min test, then the max test
BoundAxis(pos, vel, lo, hi) ==
    LET p1 == IF pos < lo THEN lo ELSE pos
        v1 == IF pos < lo THEN Damp(vel) ELSE vel
    IN  IF p1 > hi THEN [p |-> hi, v |-> Damp(v1)] ELSE [p |-> p1, v |-> v1]

\* handleBoundaryCollision stopping after the first axis it had to handle (a
\* faulty variant)
handleBoundaryCollisionFirstAxis(particle) ==
    LET bounds == SetFromObject(boundingGeometry)
        out == {k \in Axes : \/ particle.position[k] < bounds.min[k]
                             \/ particle.position[k] > bounds.max[k]}
        first == IF out = {} THEN 0 ELSE CHOOSE k \in out : \A m \in out : k <= m
        r == [k \in Axes |->
                IF k = first
                THEN BoundAxis(particle.position[k], particle.velocity[k],
                               bounds.min[k], bounds.max[k])
                ELSE [p |-> particle.position[k], v |-> particle.velocity[k]]]
    IN  [particle EXCEPT !.position = [k \in Axes |-> r[k].p],
                         !.velocity = [k \in Axes |-> r[k].v]]

handleBoundaryCollision(particle) ==
    LET bounds == SetFromObject(boundingGeometry)
        r == [k \in Axes |->
                BoundAxis(particle.position[k], particle.velocity[k],
                          bounds.min[k], bounds.max[k])]
    IN  [particle EXCEPT !.position = [k \in Axes |-> r[k].p],
                         !.velocity = [k \in Axes |-> r[k].v]]

\* updatePositions removing the particles that hit a wall (a faulty variant)
updatePositionsAbsorbing(ps, dt) ==
    LET moved == [i \in 1..Len(ps) |->
                    [ps[i] EXCEPT !.position =
                        ScaleAndAdd3(ps[i].position, ps[i].velocity, dt)]]
    IN  SelectSeq(moved, LAMBDA q : handleBoundaryCollision(q) = q)

\* updatePositions advancing by the velocity the step began with (a faulty
\* variant)
updatePositionsExplicit(ps, dt) ==
    [i \in 1..Len(ps) |->
        handleBoundaryCollision(
            [ps[i] EXCEPT !.position = ScaleAndAdd3(ps[i].position, pre[i].velocity, dt)])]

updatePositions(ps, dt) ==
    [i \in 1..Len(ps) |->
        handleBoundaryCollision(
            [ps[i] EXCEPT !.position = ScaleAndAdd3(ps[i].position, ps[i].velocity, dt)])]

----------------------------------------------------------------------------
(* binary64.  The loop variables of initializeParticles are JavaScript
   numbers.  A non-negative finite number is m * 2^e with m a bit sequence,
   least significant bit first, of exactly F64Precision bits (zero: no bits);
   sums are rounded to nearest, ties to even, as IEEE-754 does.  Exponent
   range and subnormals play no part for the values used here. *)

F64Precision == 53
F32Precision == 24

F64Zero == [m |-> << >>, e |-> 0]

\* n zero bits below the bits of a
ShiftL(a, n) == IF a = << >> THEN << >> ELSE [i \in 1..n |-> 0] \o a

\* a without zero bits at the top
BitsTrim(a) == SubSeq(a, 1, SetMax({i \in 1..Len(a) : a[i] = 1}))

\* a with zero bits added at the top, to n bits
BitsPad(a, n) == a \o [i \in 1..(n - Len(a)) |-> 0]

\* bits from..to of a + b + carry, for a and b of one length, and the carry
\* out of them (the range is halved, so the nesting stays shallow)
RECURSIVE AddRange(_, _, _, _, _)
AddRange(a, b, from, to, carry) ==
    IF from = to
    THEN [bits |-> <<(a[from] + b[from] + carry) % 2>>,
          carry |-> (a[from] + b[from] + carry) \div 2]
    ELSE LET mid == (from + to) \div 2
             low == AddRange(a, b, from, mid, carry)
             high == AddRange(a, b, mid + 1, to, low.carry)
         IN  [bits |-> low.bits \o high.bits, carry |-> high.carry]

\* a + b + carry on bit sequences
BitsAdd(a, b, carry) ==
    LET n == Max(Len(a), Len(b))
        r == AddRange(BitsPad(a, n), BitsPad(b, n), 1, n, carry)
    IN  IF n = 0 THEN (IF carry = 1 THEN <<1>> ELSE << >>)
        ELSE BitsTrim(r.bits \o <<r.carry>>)

\* a < b on bit sequences without zero bits at the top
BitsLess(a, b) ==
    \/ Len(a) < Len(b)
    \/ /\ Len(a) = Len(b)
       /\ \E i \in 1..Len(a) :
             /\ a[i] < b[i]
             /\ \A j \in (i + 1)..Len(a) : a[j] = b[j]

\* a rounded to at most p bits, nearest, ties to even; shift is the number of
\* low bits given up
RoundBits(a, p) ==
    IF Len(a) <= p THEN [m |-> a, shift |-> 0]
    ELSE LET k == Len(a) - p
             kept == SubSeq(a, k + 1, Len(a))
             sticky == \E i \in 1..(k - 1) : a[i] = 1
             up == a[k] = 1 /\ (sticky \/ kept[1] = 1)
             r == IF up THEN BitsAdd(kept, <<1>>, 0) ELSE kept
         IN  IF Len(r) > p THEN [m |-> Tail(r), shift |-> k + 1]
                           ELSE [m |-> r, shift |-> k]

\* the number nearest m * 2^e with p bits
RoundTo(m, e, p) ==
    LET t == BitsTrim(m)
        r == RoundBits(t, p)
        pad == p - Len(r.m)
    IN  IF t = << >> THEN F64Zero
        ELSE [m |-> ShiftL(r.m, pad), e |-> e + r.shift - pad]

\* a + b
F64Add(a, b) ==
    IF a.m = << >> THEN b
    ELSE IF b.m = << >> THEN a
    ELSE LET lo == Min(a.e, b.e)
         IN  RoundTo(BitsAdd(ShiftL(a.m, a.e - lo), ShiftL(b.m, b.e - lo), 0),
                     lo, F64Precision)

\* a < b
F64Less(a, b) ==
    IF b.m = << >> THEN FALSE
    ELSE IF a.m = << >> THEN TRUE
    ELSE LET lo == Min(a.e, b.e)
         IN  BitsLess(ShiftL(a.m, a.e - lo), ShiftL(b.m, b.e - lo))

\* Math.fround: the Float32Array element that vec3.fromValues stores
Fround(a) == RoundTo(a.m, a.e, F32Precision)

\* the bits of a natural number
RECURSIVE NatBits(_)
NatBits(n) == IF n = 0 THEN << >> ELSE <<n % 2>> \o NatBits(n \div 2)

\* 2^k mod d
RECURSIVE PowMod(_, _)
PowMod(k, d) ==
    IF k = 0 THEN 1 % d
    ELSE LET h == PowMod(k \div 2, d)
         IN  (h * h * (IF k % 2 = 1 THEN 2 ELSE 1)) % d

\* k bits of the fraction rem / d below the binary point (rem < d), lowest
\* first, and under them a bit that tells whether anything is left: the
\* i-th bit below the point is 1 when twice the remainder of rem * 2^(i-1)
\* reaches d
FracBits(rem, d, k) ==
    <<IF (rem * PowMod(k, d)) % d # 0 THEN 1 ELSE 0>>
    \o [j \in 1..k |-> IF 2 * ((rem * PowMod(k - j, d)) % d) >= d THEN 1 ELSE 0]

\* the number a decimal literal n / d denotes
F64Of(n, d) ==
    RoundTo(FracBits(n % d, d, (F64Precision + F64Precision)) \o NatBits(n \div d),
            -((F64Precision + F64Precision) + 1), F64Precision)

\* startVolume (a cube [lo, hi)^3 with whole-number corners) and
\* particleSpacing (the decimal n / d) given to initializeParticles
Seed64Choices ==
    { [lo |-> 0, hi |-> 1, n |-> 1, d |-> 10],
      [lo |-> 0, hi |-> 1, n |-> 1, d |-> 5],
      [lo |-> 0, hi |-> 1, n |-> 1, d |-> 4],
      [lo |-> 0, hi |-> 1, n |-> 3, d |-> 10],
      [lo |-> 0, hi |-> 1, n |-> 1, d |-> 2],
      [lo |-> 0, hi |-> 2, n |-> 1, d |-> 2],
      [lo |-> 0, hi |-> 2, n |-> 7, d |-> 10],
      [lo |-> 1, hi |-> 2, n |-> 1, d |-> 5],
      [lo |-> 1, hi |-> 3, n |-> 1, d |-> 2] }

\* seed64 before any seeding on binary64 values
Seed64Idle ==
    [arg |-> [lo |-> 0, hi |-> 0, n |-> 1, d |-> 1], pc |-> "idle",
     x |-> F64Zero, y |-> F64Zero, z |-> F64Zero,
     ix |-> 0, iy |-> 0, iz |-> 0, count |-> 0, last |-> << >>]

----------------------------------------------------------------------------
(* State after construction *)

\* setSimulationParameters taking the flow rate as the stiffness, unscaled
\* (a faulty variant)
setSimulationParametersUnscaled(sp, params) ==
    [sp EXCEPT !.restDensity = params.density,
               !.viscosityCoefficient = params.viscosity,
               !.pressureCoefficient = params.flowRate]

\* setSimulationParameters: the spread keeps the other fields
setSimulationParameters(sp, params) ==
    [sp EXCEPT !.restDensity = params.density,
               !.viscosityCoefficient = params.viscosity,
               !.pressureCoefficient = params.flowRate * PressureScale]

\* the field initialiser of simulationParams (viscosity in units of 0.1); the
\* constructor's setSimulationParameters call replaces all but kernelRadius
DefaultParams ==
    [kernelRadius |-> kernelRadius, restDensity |-> 1000,
     viscosityCoefficient |-> 1, pressureCoefficient |-> 50]

NoHeld == [kind |-> "none", refs |-> << >>, copy |-> << >>]

\* new SPHSimulator(params)
Constructed(params) ==
        /\ particles = << >>
        /\ boundingGeometry = MakeBoundingGeometry(params.bounds)
        /\ simulationParams = setSimulationParameters(DefaultParams, params)
        /\ pc = "idle"
        /\ deltaTime = 0
        /\ phases = << >>
        /\ held = NoHeld
        /\ detached = << >>
        /\ lastCall = [op |-> "constructor", arg |-> params]
        /\ outcome = "returned"
        /\ pre = << >>
        /\ calls = 0

\* no program drives the engine: any call may come next
NoHarness == [kind |-> "none"]

Init ==
    /\ \E params \in ParamChoices : Constructed(params)
    /\ seed64 = Seed64Idle
    /\ harness = NoHarness

----------------------------------------------------------------------------
(* API calls.  A call begins only when the engine is idle: the code is
   synchronous and single-threaded. *)

\* calls and particles the model follows: those of the end-to-end run when
\* that is the caller's program
CallBudget == IF harness.kind = "scenario" THEN ScenarioSteps + 1 ELSE MaxCalls

ParticleBudget == IF harness.kind = "scenario" THEN ScenarioParticles ELSE MaxParticles

CanCall == pc = "idle" /\ calls < CallBudget

Called(op, arg) ==
    /\ lastCall' = [op |-> op, arg |-> arg]
    /\ pre' = DataOf(particles)
    /\ calls' = calls + 1

\* the particle object with identity o
ParticleWith(o) == particles[CHOOSE i \in 1..Len(particles) : particles[i].oid = o]

\* what the caller reads in element i of the array it holds
HeldValue(i) ==
    LET o == held.refs[i]
    IN  IF o \in Oids(particles) THEN ParticleWith(o)[held.kind] ELSE detached[o]

\* the vec3 objects of the held array once the engine has dropped `gone`
Detach(gone) ==
    [o \in {x \in HeldOids : x \in gone \/ x \in DOMAIN detached} |->
        IF o \in DOMAIN detached THEN detached[o] ELSE ParticleWith(o)[held.kind]]

SetSimulationParameters(params) ==
    /\ CanCall
    /\ simulationParams' = setSimulationParameters(simulationParams, params)
    /\ Called("setSimulationParameters", params)
    /\ outcome' = "returned"
    /\ UNCHANGED <<seed64, harness, particles, boundingGeometry, pc, deltaTime, phases, held, detached>>

\* step without its calculateDensity call (a faulty variant)
StepWithoutDensity(dt) ==
    /\ CanCall
    /\ pc' = "calculatePressure"
    /\ deltaTime' = dt
    /\ phases' = << >>
    /\ Called("step", dt)
    /\ outcome' = "running"
    /\ UNCHANGED <<seed64, harness, particles, simulationParams, boundingGeometry, held, detached>>

\* step(deltaTime): the four calls, one after the other
Step(dt) ==
    /\ CanCall
    /\ pc' = "calculateDensity"
    /\ deltaTime' = dt
    /\ phases' = << >>
    /\ Called("step", dt)
    /\ outcome' = "running"
    /\ UNCHANGED <<seed64, harness, particles, simulationParams, boundingGeometry, held, detached>>

CalculateDensity ==
    /\ pc = "calculateDensity"
    /\ particles' = calculateDensity(particles)
    /\ pc' = "calculatePressure"
    /\ phases' = Append(phases, "calculateDensity")
    /\ UNCHANGED <<seed64, harness, simulationParams, boundingGeometry, deltaTime, held, detached,
                   lastCall, outcome, pre, calls>>

CalculatePressure ==
    /\ pc = "calculatePressure"
    /\ particles' = calculatePressure(particles)
    /\ pc' = "applyForces"
    /\ phases' = Append(phases, "calculatePressure")
    /\ UNCHANGED <<seed64, harness, simulationParams, boundingGeometry, deltaTime, held, detached,
                   lastCall, outcome, pre, calls>>

ApplyForces ==
    /\ pc = "applyForces"
    /\ particles' = applyForces(particles, deltaTime)
    /\ pc' = "updatePositions"
    /\ phases' = Append(phases, "applyForces")
    /\ UNCHANGED <<seed64, harness, simulationParams, boundingGeometry, deltaTime, held, detached,
                   lastCall, outcome, pre, calls>>

UpdatePositions ==
    /\ pc = "updatePositions"
    /\ particles' = updatePositions(particles, deltaTime)
    /\ pc' = "idle"
    /\ phases' = Append(phases, "updatePositions")
    /\ outcome' = "returned"
    /\ UNCHANGED <<seed64, harness, simulationParams, boundingGeometry, deltaTime, held, detached,
                   lastCall, pre, calls>>

\* resetSimulation without this.particles = [] (a faulty variant)
resetSimulationKeeping(firstOid) ==
    particles \o NewParticles(SetFromObject(boundingGeometry),
                              simulationParams.kernelRadius,
                              SetMax(Oids(particles)) + firstOid)

\* resetSimulation: a new array, seeded over the mesh's box at kernelRadius
resetSimulation(firstOid) ==
    NewParticles(SetFromObject(boundingGeometry), simulationParams.kernelRadius, firstOid)

ResetSimulation ==
    /\ CanCall
    /\ particles' = resetSimulation(SetMax(HeldOids) + 1)
    /\ detached' = Detach(Oids(particles))
    /\ Called("resetSimulation", << >>)
    /\ outcome' = "returned"
    /\ UNCHANGED <<seed64, harness, simulationParams, boundingGeometry, pc, deltaTime, phases, held>>

\* initializeParticles: pushes onto the array; with a spacing that does not
\* advance x the call never returns
initializeParticles(startVolume, particleSpacing) ==
    particles \o NewParticles(startVolume, particleSpacing,
                              SetMax(Oids(particles) \cup HeldOids) + 1)

InitializeParticles(startVolume, particleSpacing) ==
    /\ CanCall
    /\ Called("initializeParticles",
              [startVolume |-> startVolume, particleSpacing |-> particleSpacing])
    /\ IF LoopsForever(startVolume, particleSpacing)
       THEN /\ pc' = "diverged"
            /\ outcome' = "diverged"
            /\ UNCHANGED particles
       ELSE /\ Len(initializeParticles(startVolume, particleSpacing)) <= ParticleBudget
            /\ particles' = initializeParticles(startVolume, particleSpacing)
            /\ outcome' = "returned"
            /\ UNCHANGED pc
    /\ UNCHANGED <<seed64, harness, simulationParams, boundingGeometry, deltaTime, phases, held, detached>>

\* getParticlePositions / getParticleVelocities: a new array of the
\* particles' own vec3 objects
getParticleField(field) ==
    [kind |-> field,
     refs |-> [i \in 1..Len(particles) |-> particles[i].oid],
     copy |-> [i \in 1..Len(particles) |-> particles[i][field]]]

GetParticlePositions ==
    /\ CanCall
    /\ held' = getParticleField("position")
    /\ detached' = << >>
    /\ Called("getParticlePositions", << >>)
    /\ outcome' = "returned"
    /\ UNCHANGED <<seed64, harness, particles, simulationParams, boundingGeometry, pc, deltaTime, phases>>

GetParticleVelocities ==
    /\ CanCall
    /\ held' = getParticleField("velocity")
    /\ detached' = << >>
    /\ Called("getParticleVelocities", << >>)
    /\ outcome' = "returned"
    /\ UNCHANGED <<seed64, harness, particles, simulationParams, boundingGeometry, pc, deltaTime, phases>>

\* the caller stores v into component k of element i of the array it holds
CallerWrite(i, k, v) ==
    /\ CanCall
    /\ held.kind # "none"
    /\ i \in 1..Len(held.refs)
    /\ LET o == held.refs[i]
       IN  IF o \in Oids(particles)
           THEN /\ particles' =
                      [n \in 1..Len(particles) |->
                          IF particles[n].oid = o
                          THEN [particles[n] EXCEPT ![held.kind][k] = v]
                          ELSE particles[n]]
                /\ UNCHANGED detached
           ELSE /\ detached' = [detached EXCEPT ![o][k] = v]
                /\ UNCHANGED particles
    /\ held' = [held EXCEPT !.copy[i][k] = v]
    /\ Called("write", <<i, k, v>>)
    /\ outcome' = "returned"
    /\ UNCHANGED <<seed64, harness, simulationParams, boundingGeometry, pc, deltaTime, phases>>

Next ==
    \/ \E params \in ParamChoices : SetSimulationParameters(params)
    \/ \E dt \in DeltaTimeChoices : Step(dt)
    \/ CalculateDensity
    \/ CalculatePressure
    \/ ApplyForces
    \/ UpdatePositions
    \/ ResetSimulation
    \/ \E r \in RegionChoices, sp \in SpacingChoices : InitializeParticles(r, sp)
    \/ GetParticlePositions
    \/ GetParticleVelocities
    \/ \E i \in 1..MaxParticles, k \in Axes, v \in WriteChoices : CallerWrite(i, k, v)

Spec == Init /\ [][Next]_vars

----------------------------------------------------------------------------
(* Two engines, one program.  A caller builds an engine, makes the calls of a
   script on it, then builds a second engine from the same parameters and
   makes the same calls again.  The arrays it was handed by the first engine
   stay in its hands, so the second engine's objects are other objects. *)

\* the calls a script is made of; a script names them by their place here
TwinCalls ==
    << [op |-> "initializeParticles",
       arg |-> [startVolume |-> Box3(<<0, 0, 0>>, <<2, 1, 1>>), particleSpacing |-> 1]],
      [op |-> "initializeParticles",
       arg |-> [startVolume |-> Box3(<<1, 1, 1>>, <<2, 3, 2>>), particleSpacing |-> 1]],
      [op |-> "setSimulationParameters",
       arg |-> [bounds |-> Box3(<<0, 0, 0>>, <<2, 2, 2>>), viscosity |-> 1,
                density |-> 40, flowRate |-> 2, timeStep |-> 2]],
      [op |-> "resetSimulation", arg |-> << >>],
      [op |-> "step", arg |-> 1],
      [op |-> "step", arg |-> 2],
      [op |-> "getParticlePositions", arg |-> << >>] >>

\* the parameters both engines are built from
TwinParams ==
    { params \in ParamChoices :
        params.bounds # Box3(<<0, 0, 0>>, <<2, 2, 2>>) /\ params.density = 100 }

TwinInit ==
    /\ seed64 = Seed64Idle
    /\ \E params \in TwinParams, script \in [1..MaxCalls -> 1..Len(TwinCalls)] :
          /\ Constructed(params)
          /\ harness = [kind |-> "twin", params |-> params, script |-> script,
                        run |-> 1, upto |-> MaxCalls, first |-> << >>]

\* the next call of the script
TwinCall ==
    /\ harness.kind = "twin"
    /\ calls < harness.upto
    /\ LET c == TwinCalls[harness.script[calls + 1]]
       IN  \/ c.op = "initializeParticles"
              /\ InitializeParticles(c.arg.startVolume, c.arg.particleSpacing)
           \/ c.op = "setSimulationParameters" /\ SetSimulationParameters(c.arg)
           \/ c.op = "resetSimulation" /\ ResetSimulation
           \/ c.op = "step" /\ Step(c.arg)
           \/ c.op = "getParticlePositions" /\ GetParticlePositions

\* new SPHSimulator(params) a second time, after some calls of the script:
\* what the first engine holds is kept aside, and the script starts again
TwinRerun ==
    /\ harness.kind = "twin"
    /\ harness.run = 1
    /\ pc = "idle"
    /\ calls > 0
    /\ harness' = [harness EXCEPT !.run = 2, !.upto = calls, !.first = DataOf(particles)]
    /\ particles' = << >>
    /\ boundingGeometry' = MakeBoundingGeometry(harness.params.bounds)
    /\ simulationParams' = setSimulationParameters(DefaultParams, harness.params)
    /\ pc' = "idle"
    /\ deltaTime' = 0
    /\ phases' = << >>
    /\ detached' = Detach(Oids(particles))
    /\ lastCall' = [op |-> "constructor", arg |-> harness.params]
    /\ outcome' = "returned"
    /\ pre' = << >>
    /\ calls' = 0
    /\ UNCHANGED <<seed64, held>>

TwinNext ==
    \/ TwinCall
    \/ CalculateDensity
    \/ CalculatePressure
    \/ ApplyForces
    \/ UpdatePositions
    \/ TwinRerun

TwinSpec == TwinInit /\ [][TwinNext]_vars

----------------------------------------------------------------------------
(* The end-to-end run: a unit cube (20 units a side) seeded at spacing 0.2
   (twice the kernel radius), then stepped ScenarioSteps times with one
   deltaTime.  Rest density 1000 is 40 units (poly6Kernel(0) is 1566.7). *)

ScenarioCube == Box3(<<0, 0, 0>>, <<20, 20, 20>>)

\* the fluids the run is made with
ScenarioParams ==
    { [bounds |-> ScenarioCube, viscosity |-> v, density |-> 40, flowRate |-> f,
       timeStep |-> 1] : v \in {0, 1}, f \in {1, 2} }

ScenarioInit ==
    /\ seed64 = Seed64Idle
    /\ harness = [kind |-> "scenario", dt |-> 1]
    /\ \E params \in ScenarioParams : Constructed(params)

\* simulator.initializeParticles(cube, 0.2)
ScenarioSeed ==
    /\ harness.kind = "scenario"
    /\ calls = 0
    /\ InitializeParticles(ScenarioCube, 2 * kernelRadius)

\* simulator.step(0.01), again and again
ScenarioStep ==
    /\ harness.kind = "scenario"
    /\ calls > 0
    /\ Step(harness.dt)

ScenarioNext ==
    \/ ScenarioSeed
    \/ ScenarioStep
    \/ CalculateDensity
    \/ CalculatePressure
    \/ ApplyForces
    \/ UpdatePositions

ScenarioSpec == ScenarioInit /\ [][ScenarioNext]_vars

----------------------------------------------------------------------------
(* The Poly6 kernels taken alone.  ParticleOperations.kernelPoly6(r, h) is in
   units of its coefficient 315 / (64 pi h^9), which is positive for h > 0. *)

kernelPoly6(r, h) ==
    IF r > h THEN 0
    ELSE LET h2 == h * h
         IN  (h2 - r * r) * (h2 - r * r) * (h2 - r * r)

KernelInit ==
    /\ seed64 = Seed64Idle
    /\ \E params \in ScenarioParams :
          params.viscosity = 0 /\ params.flowRate = 1 /\ Constructed(params)
    /\ \/ \E r \in 0..KernelMaxR, h \in 1..KernelMaxH :
             harness = [kind |-> "kernel", fn |-> "kernelPoly6", r |-> r, h |-> h,
                        distSq |-> r * r, done |-> FALSE, value |-> 0]
       \/ \E distSq \in 0..KernelMaxR :
             harness = [kind |-> "kernel", fn |-> "poly6Kernel", r |-> 0,
                        h |-> kernelRadius, distSq |-> distSq, done |-> FALSE,
                        value |-> 0]

\* ParticleOperations.kernelPoly6(r, h)
KernelPoly6 ==
    /\ harness.kind = "kernel" /\ harness.fn = "kernelPoly6" /\ ~harness.done
    /\ harness' = [harness EXCEPT !.done = TRUE,
                                  !.value = kernelPoly6(harness.r, harness.h)]
    /\ UNCHANGED <<engineVars, seed64>>

\* this.poly6Kernel(distance)
Poly6Kernel ==
    /\ harness.kind = "kernel" /\ harness.fn = "poly6Kernel" /\ ~harness.done
    /\ harness' = [harness EXCEPT !.done = TRUE, !.value = poly6Kernel(harness.distSq)]
    /\ UNCHANGED <<engineVars, seed64>>

KernelNext == KernelPoly6 \/ Poly6Kernel

KernelSpec == KernelInit /\ [][KernelNext]_vars

----------------------------------------------------------------------------
(* initializeParticles on binary64 values *)

\* initializeParticles is entered on an engine without particles
Seed64Init ==
    /\ \E params \in ParamChoices :
          /\ params.bounds = Box3(<<0, 0, 0>>, <<2, 2, 2>>)
          /\ params.viscosity = 0
          /\ Constructed(params)
    /\ \E a \in Seed64Choices :
          seed64 = [Seed64Idle EXCEPT !.arg = a, !.pc = "x", !.x = F64Of(a.lo, 1)]
    /\ harness = NoHarness

Lo64 == F64Of(seed64.arg.lo, 1)
Hi64 == F64Of(seed64.arg.hi, 1)
Spacing64 == F64Of(seed64.arg.n, seed64.arg.d)

\* for (let x = min.x; x < max.x; x += particleSpacing): the test
Seed64LoopX ==
    /\ seed64.pc = "x"
    /\ seed64' = IF F64Less(seed64.x, Hi64)
                 THEN [seed64 EXCEPT !.pc = "y", !.y = Lo64, !.iy = 0]
                 ELSE [seed64 EXCEPT !.pc = "done"]
    /\ UNCHANGED <<engineVars, harness>>

\* for (let y = min.y; y < max.y; y += particleSpacing): the test, and on
\* leaving the loop the x loop's increment
Seed64LoopY ==
    /\ seed64.pc = "y"
    /\ seed64' = IF F64Less(seed64.y, Hi64)
                 THEN [seed64 EXCEPT !.pc = "z", !.z = Lo64, !.iz = 0]
                 ELSE [seed64 EXCEPT !.pc = "x", !.x = F64Add(seed64.x, Spacing64),
                                     !.ix = seed64.ix + 1]
    /\ UNCHANGED <<engineVars, harness>>

\* for (let z = min.z; z < max.z; z += particleSpacing): the test, the push
\* and the increment; on leaving the loop the y loop's increment
Seed64LoopZ ==
    /\ seed64.pc = "z"
    /\ seed64' = IF F64Less(seed64.z, Hi64)
                 THEN [seed64 EXCEPT
                         !.count = seed64.count + 1,
                         !.last = [idx |-> <<seed64.ix, seed64.iy, seed64.iz>>,
                                   position |-> <<Fround(seed64.x), Fround(seed64.y),
                                                  Fround(seed64.z)>>],
                         !.z = F64Add(seed64.z, Spacing64),
                         !.iz = seed64.iz + 1]
                 ELSE [seed64 EXCEPT !.pc = "y", !.y = F64Add(seed64.y, Spacing64),
                                     !.iy = seed64.iy + 1]
    /\ UNCHANGED <<engineVars, harness>>

Seed64Next == Seed64LoopX \/ Seed64LoopY \/ Seed64LoopZ

Seed64Spec == Seed64Init /\ [][Seed64Next]_vars

----------------------------------------------------------------------------
(* The page.  PipeFlowSimulation owns a simulator (null until a model has
   been imported), listens to the buttons and inputs of the page, and steps
   the simulator from a requestAnimationFrame loop.  Handlers run to their end
   one at a time.  The harness holds the object's fields, the values in the
   inputs and the browser's list of requested animation frames; the engine
   variables hold the simulator once there is one. *)

\* the values in the viscosity, density, flow-rate and time-step inputs when
\* the page opens
DriverInputs == [viscosity |-> 1, density |-> 40, flowRate |-> 1, timeStep |-> 1]

\* values typed into the inputs that have a change listener
DriverChanges == {<<"viscosity", 0>>, <<"density", 100>>, <<"flowRate", 2>>}

\* values typed into the time-step input
DriverTimeSteps == {1, 2}

\* new THREE.Box3().setFromObject(model) of the models imported
DriverBounds == {Box3(<<0, 0, 0>>, <<4, 2, 2>>), Box3(<<0, 0, 0>>, <<2, 2, 2>>)}

\* how an import ends: no file chosen, an error (the importer throws or the
\* model has no mesh), or a model with its box
DriverImports ==
    {[ok |-> FALSE, bounds |-> Box3(Zero3, Zero3)]}
        \cup {[ok |-> TRUE, bounds |-> b] : b \in DriverBounds}

\* getFluidProperties with the bounds added
SimulationConfig(d, bounds) ==
    [bounds |-> bounds, viscosity |-> d.inputs.viscosity,
     density |-> d.inputs.density, flowRate |-> d.inputs.flowRate,
     timeStep |-> d.inputs.timeStep]

\* animate going on whenever there is a simulator (a faulty variant)
CanAnimateLoaded(d) == d.simulator

\* animate: if (!this.isSimulating || !this.simulator) return
CanAnimate(d) == d.isSimulating /\ d.simulator

\* simulator.step(deltaTime) from call to return
step(ps, dt) ==
    updatePositions(applyForces(calculatePressure(calculateDensity(ps)), dt), dt)

\* n calls of simulator.step(deltaTime)
RECURSIVE StepTimes(_, _, _)
StepTimes(ps, dt, n) == IF n = 0 THEN ps ELSE StepTimes(step(ps, dt), dt, n - 1)

DriverInit ==
    /\ seed64 = Seed64Idle
    /\ Constructed(SimulationConfig([inputs |-> DriverInputs],
                                    Box3(<<0, 0, 0>>, <<2, 2, 2>>)))
    /\ harness = [kind |-> "driver", simulator |-> FALSE, model |-> FALSE,
                  isSimulating |-> FALSE, animationFrameId |-> 0,
                  pending |-> {}, nextId |-> 1, inputs |-> DriverInputs,
                  event |-> "new", events |-> 0, stepsNow |-> 0, fired |-> 0,
                  stopped |-> FALSE]

\* a handler may run
DriverEvent == harness.kind = "driver" /\ harness.events < DriverMaxEvents

\* the harness after a handler: which it was, how many simulator.step calls
\* it made and how many animation-frame callbacks it ran
Handled(d, event, steps, fired) ==
    [d EXCEPT !.event = event, !.events = @ + 1, !.stepsNow = steps, !.fired = fired]

\* n runs of animate that pass its test: each steps the simulator, hands the
\* particles to the visualizer and requests a frame
Animated(n) ==
    /\ particles' = StepTimes(particles, harness.inputs.timeStep, n)
    /\ deltaTime' = harness.inputs.timeStep
    /\ phases' = <<"calculateDensity", "calculatePressure", "applyForces", "updatePositions">>
    /\ lastCall' = [op |-> "getParticleVelocities", arg |-> << >>]
    /\ outcome' = "returned"
    /\ pre' = DataOf(particles)
    /\ held' = getParticleField("velocity")'
    /\ detached' = << >>
    /\ UNCHANGED <<simulationParams, boundingGeometry, pc, calls>>

\* handleModelImport, from the import's end on: nothing without a file, an
\* alert when the import fails or has no mesh, else a new simulator from the
\* model's box and the inputs
HandleModelImport(result) ==
    /\ DriverEvent
    /\ harness' = Handled(IF result.ok
                          THEN [harness EXCEPT !.simulator = TRUE]
                          ELSE harness,
                          "import", 0, 0)
    /\ IF result.ok
       THEN LET params == SimulationConfig(harness, result.bounds)
            IN  /\ particles' = << >>
                /\ boundingGeometry' = MakeBoundingGeometry(params.bounds)
                /\ simulationParams' = setSimulationParameters(DefaultParams, params)
                /\ pc' = "idle"
                /\ deltaTime' = 0
                /\ phases' = << >>
                /\ held' = NoHeld
                /\ detached' = << >>
                /\ lastCall' = [op |-> "constructor", arg |-> params]
                /\ outcome' = "returned"
                /\ pre' = << >>
                /\ calls' = 0
       ELSE UNCHANGED engineVars
    /\ UNCHANGED seed64

\* a change event on the viscosity, density or flow-rate input:
\* updateFluidProperties
UpdateFluidProperties(field, value) ==
    /\ DriverEvent
    /\ LET d == [harness EXCEPT !.inputs[field] = value]
           \* the box of this.model: the one the simulator's mesh was made from
           bounds == SetFromObject(boundingGeometry)
       IN  /\ harness' = Handled(d, "change", 0, 0)
           /\ IF d.simulator /\ d.model
              THEN /\ simulationParams' =
                         setSimulationParameters(simulationParams,
                                                 SimulationConfig(d, bounds))
                   /\ lastCall' = [op |-> "setSimulationParameters",
                                   arg |-> SimulationConfig(d, bounds)]
                   /\ UNCHANGED <<particles, boundingGeometry, pc, deltaTime, phases,
                                  held, detached, outcome, pre, calls>>
              ELSE UNCHANGED engineVars
    /\ UNCHANGED seed64

\* a value typed into the time-step input, which has no listener
ChangeTimeStep(value) ==
    /\ DriverEvent
    /\ harness' = Handled([harness EXCEPT !.inputs.timeStep = value], "timeStep", 0, 0)
    /\ UNCHANGED <<engineVars, seed64>>

\* a click on start: startSimulation, with the animate call it makes
StartSimulation ==
    /\ DriverEvent
    /\ IF ~harness.simulator
       THEN /\ harness' = Handled(harness, "start", 0, 0)
            /\ UNCHANGED engineVars
       ELSE LET d == [harness EXCEPT !.isSimulating = TRUE, !.stopped = FALSE]
            IN  IF CanAnimate(d)
                THEN /\ harness' =
                           Handled([d EXCEPT !.animationFrameId = d.nextId,
                                             !.pending = @ \cup {d.nextId},
                                             !.nextId = @ + 1],
                                   "start", 1, 0)
                     /\ Animated(1)
                ELSE /\ harness' = Handled(d, "start", 0, 0)
                     /\ UNCHANGED engineVars
    /\ UNCHANGED seed64

\* pauseSimulation
Paused(d) ==
    [d EXCEPT !.isSimulating = FALSE,
              !.stopped = TRUE,
              !.pending = IF d.animationFrameId # 0 THEN @ \ {d.animationFrameId} ELSE @,
              !.animationFrameId = 0]

\* a click on pause
PauseSimulation ==
    /\ DriverEvent
    /\ harness' = Handled(Paused(harness), "pause", 0, 0)
    /\ UNCHANGED <<engineVars, seed64>>

\* a click on reset: resetSimulation of the page
PipeFlowResetSimulation ==
    /\ DriverEvent
    /\ IF ~harness.simulator
       THEN /\ harness' = Handled([harness EXCEPT !.stopped = TRUE], "reset", 0, 0)
            /\ UNCHANGED engineVars
       ELSE /\ harness' = Handled(Paused(harness), "reset", 0, 0)
            /\ particles' = resetSimulation(SetMax(HeldOids) + 1)
            /\ lastCall' = [op |-> "getParticleVelocities", arg |-> << >>]
            /\ outcome' = "returned"
            /\ pre' = DataOf(particles)
            /\ held' = getParticleField("velocity")'
            /\ detached' = << >>
            /\ UNCHANGED <<simulationParams, boundingGeometry, pc, deltaTime, phases, calls>>
    /\ UNCHANGED seed64

\* an animation frame: the browser runs the callbacks requested before it,
\* each of which is animate; frames requested meanwhile wait for the next
AnimationFrame ==
    /\ DriverEvent
    /\ harness.pending # {}
    /\ LET n == Cardinality(harness.pending)
       IN  IF CanAnimate(harness)
           THEN /\ harness' =
                      Handled([harness EXCEPT
                                  !.pending = harness.nextId..(harness.nextId + n - 1),
                                  !.animationFrameId = harness.nextId + n - 1,
                                  !.nextId = @ + n],
                              "frame", n, n)
                /\ Animated(n)
           ELSE /\ harness' = Handled([harness EXCEPT !.pending = {}], "frame", 0, n)
                /\ UNCHANGED engineVars
    /\ UNCHANGED seed64

DriverNext ==
    \/ \E result \in DriverImports : HandleModelImport(result)
    \/ \E c \in DriverChanges : UpdateFluidProperties(c[1], c[2])
    \/ \E value \in DriverTimeSteps : ChangeTimeStep(value)
    \/ StartSimulation
    \/ PauseSimulation
    \/ PipeFlowResetSimulation
    \/ AnimationFrame

DriverSpec == DriverInit /\ [][DriverNext]_vars

----------------------------------------------------------------------------
(* OpenFOAMTimeSeriesHandler.parseVTKFile.  A file is its lines after
   split("\n") and trim(); a line is the sequence of its words, which single
   blanks separate.  The harness holds the loop's variables. *)

\* the lines files are made of: the two headers parseVTKFile looks for, the
\* line after a SCALARS header, a data line, an empty line, and the headers
\* of another scalar field and of another vector field
ParserLines ==
    { <<"VECTORS", "U", "float">>,
      <<"SCALARS", "p", "float">>,
      <<"LOOKUP_TABLE", "default">>,
      <<"1", "2", "3">>,
      << >>,
      <<"SCALARS", "T", "float">>,
      <<"VECTORS", "B", "float">> }

\* what Number gives for a word that is no numeral
NaN == -1

\* Number(word)
Number(word) ==
    CASE word = "1" -> 1
      [] word = "2" -> 2
      [] word = "3" -> 3
      [] OTHER -> NaN

\* line.includes(first + " " + second), second being one letter
Includes(line, first, second) ==
    \E k \in 1..(Len(line) - 1) :
        /\ line[k] = first
        /\ line[k + 1] \in {second} \cup (IF second = "p" THEN {"pressure", "p_rgh"} ELSE {})

\* line.includes(word)
IncludesWord(line, word) == \E k \in 1..Len(line) : line[k] = word

\* line.split(/\s+/).map(Number)
Values(line) == [k \in 1..Len(line) |-> Number(line[k])]

\* new Float32Array(data): the values here are whole numbers a 32-bit float
\* holds exactly, and NaN
Float32Array(data) == data

ParserInit ==
    /\ seed64 = Seed64Idle
    /\ Constructed(SimulationConfig([inputs |-> DriverInputs],
                                    Box3(<<0, 0, 0>>, <<2, 2, 2>>)))
    /\ \E n \in 0..ParserMaxLines, lines \in [1..ParserMaxLines -> ParserLines] :
          harness = [kind |-> "parser", lines |-> SubSeq(lines, 1, n), i |-> 1,
                     readingVelocity |-> FALSE, readingPressure |-> FALSE,
                     velocityData |-> << >>, pressureData |-> << >>,
                     flowData |-> [velocity |-> << >>, pressure |-> << >>, timeStep |-> 0],
                     done |-> FALSE]

\* the two blocks at the end of the loop body, the velocity block first
ReadLine(h, line) ==
    LET v == IF ~h.readingVelocity THEN h
             ELSE IF Len(line) = 0 \/ IncludesWord(line, "SCALARS")
             THEN [h EXCEPT !.readingVelocity = FALSE,
                            !.flowData.velocity = Float32Array(h.velocityData)]
             ELSE [h EXCEPT !.velocityData = @ \o Values(line)]
    IN  IF ~v.readingPressure THEN v
        ELSE IF Len(line) = 0 \/ IncludesWord(line, "VECTORS")
        THEN [v EXCEPT !.readingPressure = FALSE,
                       !.flowData.pressure = Float32Array(v.pressureData)]
        ELSE [v EXCEPT !.pressureData = @ \o Values(line)]

\* the loop body for lines[i], with the i++ of the for statement
Parsed(h) ==
    LET line == h.lines[h.i]
    IN  IF Includes(line, "VECTORS", "U")
        THEN [h EXCEPT !.readingVelocity = TRUE, !.i = @ + 1]
        ELSE IF Includes(line, "SCALARS", "p")
        THEN [h EXCEPT !.readingPressure = TRUE, !.i = @ + 2]
        ELSE [ReadLine(h, line) EXCEPT !.i = @ + 1]

\* one turn of the for loop
ParseLine ==
    /\ harness.kind = "parser"
    /\ ~harness.done
    /\ harness.i <= Len(harness.lines)
    /\ harness' = Parsed(harness)
    /\ UNCHANGED <<engineVars, seed64>>

\* the loop ends: return flowData
ParseReturn ==
    /\ harness.kind = "parser"
    /\ ~harness.done
    /\ harness.i > Len(harness.lines)
    /\ harness' = [harness EXCEPT !.done = TRUE]
    /\ UNCHANGED <<engineVars, seed64>>

ParserNext == ParseLine \/ ParseReturn

ParserSpec == ParserInit /\ [][ParserNext]_vars

----------------------------------------------------------------------------
(* Properties of the engine *)

Box == SetFromObject(boundingGeometry)

InBox(pos, b) == \A k \in Axes : b.min[k] <= pos[k] /\ pos[k] <= b.max[k]

Returned(op) == pc = "idle" /\ lastCall.op = op /\ outcome = "returned"

OidSeq(ps) == [i \in 1..Len(ps) |-> ps[i].oid]

StepPhases == <<"calculateDensity", "calculatePressure", "applyForces", "updatePositions">>

C2_PhaseOrder ==
    [][ /\ (pc = "idle" /\ lastCall'.op = "step" /\ calls' # calls)
            => (pc' = "calculateDensity" /\ phases' = << >>)
        /\ (pc = "calculateDensity")
            => (pc' = "calculatePressure" /\ phases' = <<"calculateDensity">>)
        /\ (pc = "calculatePressure")
            => (pc' = "applyForces"
                /\ phases' = <<"calculateDensity", "calculatePressure">>)
        /\ (pc = "applyForces")
            => (pc' = "updatePositions"
                /\ phases' = <<"calculateDensity", "calculatePressure", "applyForces">>)
        /\ (pc = "updatePositions")
            => (/\ pc' = "idle"
                /\ phases' = StepPhases
                /\ \A i \in 1..Len(particles') :
                      /\ particles'[i].density >= poly6Kernel(0)
                      /\ particles'[i].pressure =
                            simulationParams.pressureCoefficient
                              * (particles'[i].density - simulationParams.restDensity))
        /\ (pc \notin {"idle", "diverged"}) => (calls' = calls /\ lastCall' = lastCall)
      ]_vars

\* a step over at least two particles has returned having changed them
C2_Witness ==
    /\ Returned("step")
    /\ phases = StepPhases
    /\ Len(particles) >= 2
    /\ DataOf(particles) # pre

\* C3: the array an accessor returned is a snapshot: with the engine idle,
\* each of its elements reads as a copy made at the call would (the values
\* at the call, plus what the caller itself stored there), whatever step,
\* reset or seed came later; and a caller's store into it leaves the
\* engine's particles as they were.
C3_Snapshot ==
    /\ (pc = "idle" /\ held.kind # "none")
          => \A i \in 1..Len(held.refs) : HeldValue(i) = held.copy[i]
    /\ Returned("write") => DataOf(particles) = pre

\* what initializeParticles must reject
InvalidSeed(arg) ==
    \/ arg.particleSpacing <= 0
    \/ \E k \in Axes : ~(arg.startVolume.max[k] > arg.startVolume.min[k])

\* C4: initializeParticles with spacing <= 0, or with a region whose max is
\* not greater than its min on some axis, ends with an InvalidParameter
\* error and leaves the particles as they were.
C4_SeedRejected ==
    (lastCall.op = "initializeParticles" /\ InvalidSeed(lastCall.arg))
        => (outcome = "InvalidParameter" /\ DataOf(particles) = pre)

\* C5: step with deltaTime <= 0 ends with an InvalidParameter error and
\* leaves every particle's position, velocity, density and pressure as they
\* were.
C5_StepRejected ==
    (lastCall.op = "step" /\ lastCall.arg <= 0 /\ outcome # "running")
        => (outcome = "InvalidParameter" /\ DataOf(particles) = pre)

\* number of points of a half-open axis [lo, hi) at the given spacing
AxisCount(lo, hi, spacing) ==
    IF hi > lo THEN (hi - lo + spacing - 1) \div spacing ELSE 0

\* the lattice over box b, by index: x outer, y middle, z inner
Lattice(b, spacing) ==
    LET nx == AxisCount(b.min[1], b.max[1], spacing)
        ny == AxisCount(b.min[2], b.max[2], spacing)
        nz == AxisCount(b.min[3], b.max[3], spacing)
    IN  [n \in 1..(nx * ny * nz) |->
            << b.min[1] + ((n - 1) \div (ny * nz)) * spacing,
               b.min[2] + (((n - 1) \div nz) % ny) * spacing,
               b.min[3] + ((n - 1) % nz) * spacing >>]

\* a particle as seeded at pos
Seeded(pos) ==
    [position |-> pos, velocity |-> Zero3,
     density |-> simulationParams.restDensity, pressure |-> 0]

\* C8: when resetSimulation has returned, the particles are exactly the
\* lattice over the engine's box at spacing kernelRadius, in x-outer,
\* y-middle, z-inner order, at rest, with density the current rest density
\* and pressure 0: nothing of the earlier particles or calls remains, so a
\* second reset gives the same particles again.
C8_ResetFresh ==
    Returned("resetSimulation") =>
        DataOf(particles) =
            [n \in 1..Len(Lattice(Box, kernelRadius)) |->
                Seeded(Lattice(Box, kernelRadius)[n])]

\* a reset has returned that replaced other particles by at least two
C8_Witness ==
    /\ Returned("resetSimulation")
    /\ Len(pre) > 0
    /\ pre # DataOf(particles)
    /\ Len(particles) >= 2

\* C9: setSimulationParameters sets rest density, viscosity coefficient and
\* pressure stiffness (flowRate * 50) from its argument and changes nothing
\* else: kernel radius, bounding volume and every particle stay as they were.
C9_SetParametersFrame ==
    [][ (lastCall'.op = "setSimulationParameters" /\ calls' # calls) =>
          /\ simulationParams'.restDensity = lastCall'.arg.density
          /\ simulationParams'.viscosityCoefficient = lastCall'.arg.viscosity
          /\ simulationParams'.pressureCoefficient = lastCall'.arg.flowRate * 50
          /\ simulationParams'.kernelRadius = simulationParams.kernelRadius
          /\ DOMAIN simulationParams' = DOMAIN simulationParams
          /\ boundingGeometry' = boundingGeometry
          /\ particles' = particles
      ]_vars

\* parameters were set with particles present whose density is not the new
\* rest density, to a stiffness other than the one before
C9_Witness ==
    /\ Returned("setSimulationParameters")
    /\ \E i \in 1..Len(particles) :
          /\ particles[i].density # simulationParams.restDensity
          /\ particles[i].pressure # 0
    /\ simulationParams.pressureCoefficient = 2 * 50

\* C10: step and setSimulationParameters never create, destroy or reorder a
\* particle: across every transition of such a call the sequence of particle
\* objects is the same, so index i of both accessors' arrays is the same
\* particle before and after.
C10_CountAndOrder ==
    [][ lastCall'.op \in {"step", "setSimulationParameters"} =>
          /\ OidSeq(particles') = OidSeq(particles)
          /\ getParticleField("position").refs' = getParticleField("position").refs
          /\ getParticleField("velocity").refs' = getParticleField("position").refs
      ]_vars

\* a step has returned that moved a particle onto a wall among at least two
C10_Witness ==
    /\ Returned("step")
    /\ Len(particles) >= 2
    /\ \E i \in 1..Len(particles) :
          /\ particles[i].position # pre[i].position
          /\ \E k \in Axes : particles[i].position[k] \in {Box.min[k], Box.max[k]}

\* no other particle of ps is within the kernel radius of particle i
Isolated(ps, i) ==
    \A j \in 1..Len(ps) : j # i => ~WithinRadius(ps[i].position, ps[j].position)

\* where particle i of ps is after deltaTime at its velocity
Moved(ps, i) == ScaleAndAdd3(ps[i].position, ps[i].velocity, deltaTime)

\* C14: a particle with no other particle within the kernel radius when a
\* step begins gets exactly the self term poly6Kernel(0) as its density,
\* leaves the force phase with the velocity it had, and, when position +
\* velocity * deltaTime is inside the box, ends the step exactly there with
\* that velocity.
C14_Isolation ==
    lastCall.op = "step" =>
        \A i \in 1..Len(pre) :
            Isolated(pre, i) =>
                /\ (pc \in {"calculatePressure", "applyForces", "updatePositions", "idle"})
                      => particles[i].density = poly6Kernel(0)
                /\ (pc = "updatePositions") => particles[i].velocity = pre[i].velocity
                /\ (pc = "idle" /\ InBox(Moved(pre, i), Box))
                      => /\ particles[i].position = Moved(pre, i)
                         /\ particles[i].velocity = pre[i].velocity

\* a step has returned in which a particle that was alone and moving went
\* to another place inside the box, beside another particle
C14_Witness ==
    /\ Returned("step")
    /\ deltaTime > 0
    /\ Len(pre) >= 2
    /\ \E i \in 1..Len(pre) :
          /\ Isolated(pre, i)
          /\ pre[i].velocity # Zero3
          /\ InBox(Moved(pre, i), Box)
          /\ particles[i].position # pre[i].position
          /\ particles[i].density = poly6Kernel(0)

\* v2 is -0.5 times v1: exactly when the half is on the grid, else the
\* grid value next to it toward zero
HalvedAndNegated(v1, v2) ==
    /\ v1 % 2 = 0 => 2 * v2 = -v1
    /\ v1 % 2 # 0 => 2 * v2 \in {-v1 - 1, -v1 + 1} /\ Abs(2 * v2) < Abs(v1)

\* C16: in updatePositions, on each axis, a particle whose integrated
\* position is strictly below the box's min (strictly above its max) and
\* whose velocity on that axis points outward is put on that bound with
\* that velocity component replaced by -0.5 times its value, which points
\* inward; a particle whose integrated position is within [min, max], the
\* bounds included, keeps that position and its velocity.
C16_DampingSign ==
    [][ pc = "updatePositions" =>
          \A i \in 1..Len(particles), k \in Axes :
              LET x == Moved(particles, i)[k]
                  v == particles[i].velocity[k]
                  x2 == particles'[i].position[k]
                  v2 == particles'[i].velocity[k]
              IN  /\ (x < Box.min[k] /\ v < 0) =>
                        x2 = Box.min[k] /\ HalvedAndNegated(v, v2) /\ v2 >= 0
                  /\ (x > Box.max[k] /\ v > 0) =>
                        x2 = Box.max[k] /\ HalvedAndNegated(v, v2) /\ v2 <= 0
                  /\ (Box.min[k] <= x /\ x <= Box.max[k]) => x2 = x /\ v2 = v
      ]_vars

\* a step has returned that took a particle from inside the box onto its max
\* face on some axis, where it now moves inward, and left another particle
\* that stood on a face where it was
C16_Witness ==
    /\ Returned("step")
    /\ deltaTime > 0
    /\ \E i \in 1..Len(particles), k \in Axes :
          /\ pre[i].position[k] < Box.max[k]
          /\ particles[i].position[k] = Box.max[k]
          /\ particles[i].velocity[k] < 0
    /\ \E i \in 1..Len(particles), k \in Axes :
          /\ pre[i].position[k] = Box.min[k]
          /\ particles[i].position[k] = Box.min[k]
          /\ particles[i].velocity[k] = 0

\* the particles as the force phase found them: applyForces writes
\* velocities only, and the phases before it leave them as the call found them
ForcePhaseStart ==
    [i \in 1..Len(particles) |-> [particles[i] EXCEPT !.velocity = pre[i].velocity]]

\* C17: when the force phase of a step has ended, each particle's velocity
\* is the one the loop body gives from the particles as they stood when the
\* phase began, so the result does not depend on the order in which the
\* particles were taken (steps of a positive deltaTime).
C17_ForceIndependence ==
    (pc = "updatePositions" /\ deltaTime > 0) =>
        \A i \in 1..Len(particles) :
            particles[i].velocity =
                ApplyForcesTo(ForcePhaseStart, i, deltaTime)[i].velocity

\* the particles as the step found them
StepStart ==
    [i \in 1..Len(particles) |->
        [particles[i] EXCEPT !.position = pre[i].position,
                             !.velocity = pre[i].velocity,
                             !.density = pre[i].density,
                             !.pressure = pre[i].pressure]]

\* C18: while the force phase of a step runs, and until the step returns,
\* every particle's density is the one the density phase gives from the
\* positions the step began with, and its pressure is the stiffness now in
\* effect times (that density - the rest density now in effect): no density
\* or pressure of an earlier step or of seeding is there to be read.
C18_PhaseBarrier ==
    (lastCall.op = "step" /\ pc \in {"applyForces", "updatePositions"}) =>
        LET fresh == calculateDensity(StepStart)
        IN  \A i \in 1..Len(particles) :
                /\ particles[i].density = fresh[i].density
                /\ particles[i].pressure =
                      simulationParams.pressureCoefficient
                        * (fresh[i].density - simulationParams.restDensity)

\* the force phase of a step is about to run on at least two particles that
\* came into the step with the density and pressure of an earlier step,
\* taken at other positions
C18_Witness ==
    /\ lastCall.op = "step"
    /\ pc = "applyForces"
    /\ Len(particles) >= 2
    /\ \E i \in 1..Len(particles) :
          /\ pre[i].pressure # 0
          /\ pre[i].density # particles[i].density
          /\ pre[i].pressure # particles[i].pressure

\* C19: the density, pressure and force phases of a step leave every
\* position as it is, so all three read the positions the step began with;
\* updatePositions then puts each particle at position + velocity *
\* deltaTime, with the velocity the force phase has left, brought back to
\* the box's face on the axes where that point is outside.
C19_SemiImplicitEuler ==
    [][ /\ (pc \in {"calculateDensity", "calculatePressure", "applyForces"}) =>
              /\ Len(particles') = Len(particles)
              /\ \A i \in 1..Len(particles) :
                    /\ particles'[i].position = particles[i].position
                    /\ particles[i].position = pre[i].position
        /\ (pc = "updatePositions") =>
              \A i \in 1..Len(particles), k \in Axes :
                  particles'[i].position[k] =
                      Max(Box.min[k],
                          Min(Box.max[k],
                              pre[i].position[k]
                                + particles[i].velocity[k] * deltaTime))
      ]_vars

\* a step has returned in which the force phase changed a particle's
\* velocity on some axis, and on that axis the particle went, between the
\* box's faces, to where the new velocity takes it and not to where the
\* velocity the step began with would have
C19_Witness ==
    /\ Returned("step")
    /\ deltaTime > 0
    /\ \E i \in 1..Len(particles), k \in Axes :
          /\ particles[i].velocity[k] # pre[i].velocity[k]
          /\ particles[i].position[k] =
                pre[i].position[k] + particles[i].velocity[k] * deltaTime
          /\ particles[i].position[k] # Moved(pre, i)[k]
          /\ Box.min[k] < particles[i].position[k]
          /\ particles[i].position[k] < Box.max[k]

\* the particles of ps strictly nearer to particle i than the kernel radius
Near(ps, i) ==
    {j \in 1..Len(ps) :
        DistSq(ps[i].position, ps[j].position) < kernelRadius * kernelRadius}

\* the sum over the particles J of the poly6 value at their distance from
\* particle i, in units of the kernel's coefficient
RECURSIVE Poly6Over(_, _, _)
Poly6Over(ps, i, J) ==
    IF J = {} THEN 0
    ELSE LET j == CHOOSE x \in J : TRUE
             d == kernelRadius * kernelRadius
                    - DistSq(ps[i].position, ps[j].position)
         IN  d * d * d + Poly6Over(ps, i, J \ {j})

\* C20: when the density phase of a step has ended, each particle's density
\* is the sum of the poly6 values over exactly the particles strictly
\* nearer than the kernel radius, itself among them and each taken once: a
\* particle at the kernel radius or beyond adds nothing, and every particle
\* at the same position adds the full poly6 value at distance 0.
C20_DensityEstimate ==
    (lastCall.op = "step" /\ pc = "calculatePressure") =>
        \A i \in 1..Len(particles) :
            /\ i \in Near(particles, i)
            /\ particles[i].density = Poly6Over(particles, i, Near(particles, i))
            /\ particles[i].density >=
                  poly6Kernel(0)
                    * Cardinality({j \in 1..Len(particles) :
                                     particles[j].position = particles[i].position})

\* the density phase of a step has ended on particles of which one has
\* another at its own position, another nearer than the kernel radius
\* elsewhere, and another exactly at the kernel radius
C20_Witness ==
    /\ lastCall.op = "step"
    /\ pc = "calculatePressure"
    /\ \E i \in 1..Len(particles) :
          /\ \E j \in 1..Len(particles) :
                j # i /\ particles[j].position = particles[i].position
          /\ \E j \in Near(particles, i) :
                particles[j].position # particles[i].position
          /\ \E j \in 1..Len(particles) :
                DistSq(particles[i].position, particles[j].position)
                    = kernelRadius * kernelRadius

RECURSIVE PressureOver(_, _, _)
PressureOver(ps, i, J) ==
    IF J = {} THEN Zero3
    ELSE LET j == CHOOSE x \in J : TRUE
             term == Quot(ps[i].pressure + ps[j].pressure, 2 * ps[j].density)
         IN  Add3(Scale3(Sub3(ps[j].position, ps[i].position), term),
                  PressureOver(ps, i, J \ {j}))

\* C22: in the force phase of a step the pressure force accumulated for
\* particle i is the sum, over exactly the other particles strictly nearer
\* than the kernel radius, of (pos_j - pos_i) * (pressure_i + pressure_j)
\* / (2 * density_j), the density being the neighbour's: the particle
\* itself and the particles at the radius or beyond add nothing.
C22_PressureForce ==
    (lastCall.op = "step" /\ pc = "applyForces") =>
        \A i \in 1..Len(particles) :
            PressureSum(particles, i, 1, Len(particles))
                = PressureOver(particles, i, Near(particles, i) \ {i})

\* the force phase of a step begins with a particle that has a neighbour of
\* another density, for which dividing by its own density would give
\* another force, and a particle beyond the kernel radius
C22_Witness ==
    /\ lastCall.op = "step"
    /\ pc = "applyForces"
    /\ \E i \in 1..Len(particles) :
          /\ \E j \in Near(particles, i) \ {i} :
                /\ particles[j].density # particles[i].density
                /\ particles[j].position # particles[i].position
                /\ Quot(particles[i].pressure + particles[j].pressure,
                        2 * particles[j].density)
                     # Quot(particles[i].pressure + particles[j].pressure,
                            2 * particles[i].density)
          /\ \E j \in 1..Len(particles) : j \notin Near(particles, i)
          /\ PressureSum(particles, i, 1, Len(particles)) # Zero3

\* the sum over the particles J of velocity_j - velocity_i
RECURSIVE ViscosityOver(_, _, _)
ViscosityOver(ps, i, J) ==
    IF J = {} THEN Zero3
    ELSE LET j == CHOOSE x \in J : TRUE
         IN  Add3(Sub3(ps[j].velocity, ps[i].velocity),
                  ViscosityOver(ps, i, J \ {j}))

\* C23: when the force phase of a step has ended, each particle's velocity
\* is the one it had plus deltaTime * P + viscosityCoefficient * deltaTime
\* * V, with P its accumulated pressure force and V the sum of velocity_j -
\* velocity_i over the other particles strictly nearer than the kernel
\* radius, taken on the particles as the phase found them; nothing is
\* divided by a mass or a density (steps of a positive deltaTime).
C23_VelocityUpdate ==
    (lastCall.op = "step" /\ pc = "updatePositions" /\ deltaTime > 0) =>
        \A i \in 1..Len(particles) :
            LET others == Near(ForcePhaseStart, i) \ {i}
                P == PressureOver(ForcePhaseStart, i, others)
                V == ViscosityOver(ForcePhaseStart, i, others)
            IN  particles[i].velocity =
                    Add3(Add3(pre[i].velocity, Scale3(P, deltaTime)),
                         Scale3(V, simulationParams.viscosityCoefficient * deltaTime))

\* whether x is outside [lo, hi]
Outside(x, lo, hi) == x < lo \/ x > hi

\* C24: in updatePositions each axis is handled by itself: on an axis where
\* the integrated position is within the box, position and velocity
\* components are the integrated ones even when another axis had to be
\* handled, and a particle whose integrated position is outside on all
\* three axes is put on a face and damped on all three in that step.
C24_AxisIndependence ==
    [][ pc = "updatePositions" =>
          \A i \in 1..Len(particles) :
              LET x == Moved(particles, i)
                  v == particles[i].velocity
                  out == {k \in Axes : Outside(x[k], Box.min[k], Box.max[k])}
              IN  /\ \A k \in Axes \ out :
                        /\ particles'[i].position[k] = x[k]
                        /\ particles'[i].velocity[k] = v[k]
                  /\ \A k \in out :
                        /\ particles'[i].position[k] \in {Box.min[k], Box.max[k]}
                        /\ HalvedAndNegated(v[k], particles'[i].velocity[k])
      ]_vars

\* a step has returned in which one particle left the box on all three axes
\* and is now on a face on each, moving inward, and another was handled on
\* one axis while it moved freely between the faces on another
C24_Witness ==
    /\ Returned("step")
    /\ deltaTime > 0
    /\ \E i \in 1..Len(particles) :
          \A k \in Axes :
              /\ Box.min[k] <= pre[i].position[k]
              /\ pre[i].position[k] < Box.max[k]
              /\ particles[i].position[k] = Box.max[k]
              /\ particles[i].velocity[k] < 0
    /\ \E i \in 1..Len(particles), k \in Axes, m \in Axes :
          /\ k # m
          /\ pre[i].position[k] # particles[i].position[k]
          /\ particles[i].position[k] \in {Box.min[k], Box.max[k]}
          /\ particles[i].velocity[k] # 0
          /\ pre[i].position[k] + (-2) * particles[i].velocity[k] * deltaTime
                \notin Box.min[k]..Box.max[k]
          /\ Box.min[m] < particles[i].position[m]
          /\ particles[i].position[m] < Box.max[m]
          /\ particles[i].position[m] # pre[i].position[m]
          /\ particles[i].position[m]
                = pre[i].position[m] + particles[i].velocity[m] * deltaTime

\* C25: from the end of the density phase of a step on, every particle's
\* density is at least the self term poly6Kernel(0), which is positive,
\* whatever the configuration (coincident particles included); so the
\* divisor 2 * density of calculatePressureForce is not 0 for any pair the
\* force phase takes.
C25_PositiveDensity ==
    (lastCall.op = "step"
       /\ pc \in {"calculatePressure", "applyForces", "updatePositions"}) =>
        /\ poly6Kernel(0) > 0
        /\ \A j \in 1..Len(particles) :
              /\ particles[j].density >= poly6Kernel(0)
              /\ (\E i \in 1..Len(particles) : Interacts(particles, i, j))
                    => 2 * particles[j].density # 0

\* the force phase of a step begins on particles of which two are at one
\* position and take each other's density as divisor, and two at different
\* positions interact
C25_Witness ==
    /\ lastCall.op = "step"
    /\ pc = "applyForces"
    /\ \E i, j \in 1..Len(particles) :
          /\ i # j
          /\ particles[i].position = particles[j].position
          /\ Interacts(particles, i, j)
    /\ \E i, j \in 1..Len(particles) :
          /\ Interacts(particles, i, j)
          /\ particles[i].position # particles[j].position

----------------------------------------------------------------------------
(* Properties of the page *)

\* C26: whatever the clicks on start, pause and reset and the animation
\* frames, at most one animate callback is requested and neither run nor
\* cancelled, and an animation frame calls simulator.step at most once; a
\* click on start while the simulation runs adds no second loop.
C26_SingleLoop ==
    harness.kind = "driver" =>
        /\ Cardinality(harness.pending) <= 1
        /\ harness.event = "frame" => harness.stepsNow <= 1

\* C27: once pauseSimulation or resetSimulation has returned, no handler
\* but the next startSimulation calls simulator.step, not even an animation
\* frame whose callback was requested earlier; and startSimulation without
\* a simulator requests no frame and leaves isSimulating false.
C27_StoppedUntilStart ==
    [][ harness.kind = "driver" =>
          /\ (harness'.event \in {"pause", "reset"}) =>
                /\ ~harness'.isSimulating
                /\ harness'.stepsNow = 0
          /\ (harness.stopped /\ harness'.event # "start") =>
                /\ harness'.stepsNow = 0
                /\ harness'.event \notin {"reset", "import"} => particles' = particles
          /\ (harness'.event = "start" /\ ~harness.simulator) =>
                /\ harness'.pending = harness.pending
                /\ harness'.pending = {}
                /\ ~harness'.isSimulating
                /\ harness'.stepsNow = 0
      ]_vars

\* an animation frame has run a callback requested before the pause, on a
\* page with a simulator whose particles a step would change, and no step
\* was made
C27_Witness ==
    /\ harness.kind = "driver"
    /\ harness.event = "frame"
    /\ harness.simulator
    /\ harness.stopped
    /\ harness.fired > 0
    /\ harness.stepsNow = 0
    /\ step(particles, harness.inputs.timeStep) # particles

\* C28: once there is a simulator, a change event on the viscosity, density
\* or flow-rate input ends with simulator.setSimulationParameters called
\* with the values now in the inputs, so that the simulator's rest density,
\* viscosity coefficient and stiffness are those of the inputs.
C28_ParametersFollowInputs ==
    (harness.kind = "driver" /\ harness.simulator /\ harness.event = "change") =>
        /\ lastCall.op = "setSimulationParameters"
        /\ simulationParams.restDensity = harness.inputs.density
        /\ simulationParams.viscosityCoefficient = harness.inputs.viscosity
        /\ simulationParams.pressureCoefficient = harness.inputs.flowRate * PressureScale

----------------------------------------------------------------------------
(* Properties of parseVTKFile *)

\* C29: at no line are readingVelocity and readingPressure both true, so a
\* data line goes to one of velocityData and pressureData only, the one
\* whose header came last, also when a header follows the other field's data
\* with no empty line between.
C29_ExclusiveModes ==
    harness.kind = "parser" => ~(harness.readingVelocity /\ harness.readingPressure)

\* C30: parseVTKFile returns all it collected: the velocity and pressure
\* arrays of the flowData returned hold every number appended to
\* velocityData and pressureData, also when the data run to the last line.
C30_ReturnsAll ==
    (harness.kind = "parser" /\ harness.done) =>
        /\ harness.flowData.velocity = Float32Array(harness.velocityData)
        /\ harness.flowData.pressure = Float32Array(harness.pressureData)

----------------------------------------------------------------------------
(* Properties of two engines given one program *)

C13_OwnsBounds ==
    harness.kind = "twin" => Box = harness.params.bounds

----------------------------------------------------------------------------
(* Properties of the kernels *)

\* C15: for a distance r and radius h (as squares: distSq and h * h), both
\* poly6Kernel and ParticleOperations.kernelPoly6 give a value >= 0 for
\* 0 <= r <= h, exactly 0 at r = h, and exactly 0 for every r > h.
C15_KernelRange ==
    (harness.kind = "kernel" /\ harness.done) =>
        /\ harness.distSq <= harness.h * harness.h => harness.value >= 0
        /\ harness.distSq = harness.h * harness.h => harness.value = 0
        /\ harness.distSq > harness.h * harness.h => harness.value = 0

\* the engine's kernel was taken beyond its radius, where the cubed
\* difference is negative
C15_Witness ==
    /\ harness.kind = "kernel" /\ harness.done
    /\ harness.fn = "poly6Kernel"
    /\ harness.distSq > harness.h * harness.h
    /\ harness.value = 0

----------------------------------------------------------------------------
(* Properties of the end-to-end run *)

\* sum of the squared velocity components of the particles from..to
RECURSIVE KineticEnergy(_, _, _)
KineticEnergy(ps, from, to) ==
    IF from > to THEN 0
    ELSE IF from = to THEN DistSq(ps[from].velocity, Zero3)
    ELSE KineticEnergy(ps, from, (from + to) \div 2)
         + KineticEnergy(ps, (from + to) \div 2 + 1, to)

\* C12: in the end-to-end run (unit cube, spacing 0.2, 125 particles, rest
\* density 1000, kernel radius 0.1), after each of the steps every particle
\* is inside the cube and the total kinetic energy is below a fixed bound: no
\* two particles are within the kernel radius, so it is 0 and every particle
\* is where it was seeded.
C12_EndToEnd ==
    (harness.kind = "scenario" /\ Returned("step")) =>
        /\ Len(particles) = 125
        /\ Box = ScenarioCube
        /\ \A i \in 1..Len(particles) : InBox(particles[i].position, ScenarioCube)
        /\ \A i \in 1..Len(particles) :
              /\ particles[i].velocity = Zero3
              /\ particles[i].position = Lattice(ScenarioCube, 2 * kernelRadius)[i]
              /\ \A j \in 1..Len(particles) :
                    i # j => ~WithinRadius(particles[i].position, particles[j].position)
        /\ KineticEnergy(particles, 1, Len(particles)) <= 0

\* the tenth step of the run has returned, on 125 particles under pressure
C12_Witness ==
    /\ harness.kind = "scenario"
    /\ Returned("step")
    /\ calls = 10 + 1
    /\ Len(particles) = 125
    /\ \A i \in 1..Len(particles) : particles[i].pressure > 0

----------------------------------------------------------------------------
(* Properties of initializeParticles on binary64 values *)

\* the least whole number >= a / b, for a >= 0 and b > 0
CeilDiv(a, b) == (a + b - 1) \div b

\* C6: every particle initializeParticles pushes stands for a lattice point
\* min + i * spacing that is strictly below max on every axis (i the number
\* of increments made): no point at or beyond max is seeded.
C6_LatticePoints ==
    seed64.last # << >> =>
        \A k \in Axes :
            seed64.arg.lo * seed64.arg.d + seed64.last.idx[k] * seed64.arg.n
                < seed64.arg.hi * seed64.arg.d

\* C7: seeding an empty engine over a cube of side L at spacing s gives
\* ceil(L / s)^3 particles, each stored at a position inside the half-open
\* region.
C7_SeedingCount ==
    /\ seed64.pc = "done" =>
          seed64.count =
              CeilDiv((seed64.arg.hi - seed64.arg.lo) * seed64.arg.d, seed64.arg.n)
              * CeilDiv((seed64.arg.hi - seed64.arg.lo) * seed64.arg.d, seed64.arg.n)
              * CeilDiv((seed64.arg.hi - seed64.arg.lo) * seed64.arg.d, seed64.arg.n)
    /\ seed64.last # << >> =>
          \A k \in Axes :
              /\ ~F64Less(seed64.last.position[k], Lo64)
              /\ F64Less(seed64.last.position[k], Hi64)

====
